---------------------------- MODULE Spec2Model ----------------------------
(***************************************************************************)
(* Model of strands_hub_mcp/server.py: the append-only prompt versioning   *)
(* protocol (prompts_create_version, prompts_list_versions) over an S3     *)
(* bucket shared with other processes, and the namespace checks of the     *)
(* read-only metrics / sessions fetch operations.                          *)
(*                                                                         *)
(* The server is modelled with a working configuration (_cfg() returns:    *)
(* USE_S3=true).  One document owner (agent_id) is modelled; the keys of   *)
(* different owners are disjoint and never interact.                       *)
(***************************************************************************)
EXTENDS Naturals, Sequences, FiniteSets, TLC

\* ------------------------------------------------------------------ bounds

\* Number of prompts_create_version calls (each caller issues one call; the
\* callers are independent processes or threads).
NumCallers == 2

Callers == 1..NumCallers

\* ------------------------------------------------------------ input values

\* Non-empty version labels a caller may supply.
Labels == {"v1", "v2"}

\* The `version` argument: a label or the empty string.
VersionArgs == Labels \cup {""}

\* The `content` argument.
Contents == {"c1", "c2"}

\* Python's None (JSON null).
None == "None"

\* The `note` argument: str | None.
Notes == {None, "n1"}

\* A version object absent from the bucket.
Absent == "Absent"

\* versions.json is held as a sequence of at most one JSON object: <<>> when
\* the bucket has no such object.  A JSON object is a record; a key it lacks
\* is a field it lacks.
NoManifest == <<>>

VARIABLES
    objects,     \* S3: version label -> content at <prefix><agent>/<label>.txt, or Absent
    manifest,    \* S3: the object at <prefix><agent>/versions.json, or NoManifest
    pc,          \* per caller: position inside prompts_create_version
    args,        \* per caller: the call's arguments
    local,       \* per caller: the local variable `manifest`
    result,      \* per caller: return value / raised error
    clock,       \* time.time()
    first,       \* history: label -> content written when the key was first created
    seen,        \* history: per caller, the stored manifest observed by its read
    started,     \* history: the store as it was when the latest call began
    effects      \* history: per caller, the S3 operations its call has issued and
                 \*          whether one of them changed a stored object

\* The read-only fetch operations (metrics / sessions).
VARIABLES
    cfg,         \* HubConfig: the namespace prefixes
    bucket,      \* S3: the metrics / sessions objects, a set of <<key, body>>
    req,         \* the latest fetch request
    s3log,       \* the S3 operations performed for the latest request, in order
    outcome,     \* what the latest request returned or raised
    pager        \* the client's walk through the pages of one listing

pvars == <<objects, manifest, pc, args, local, result, clock, first, seen, started,
           effects>>
rvars == <<cfg, bucket, req, s3log, outcome, pager>>

vars == <<pvars, rvars>>

\* ------------------------------------------------------------ pure helpers

\* The manifest used when versions.json does not exist (lines 193, 227).
EmptyManifest == [versions |-> <<>>, current |-> None]

\* Lines 222-225: default a missing / non-list "versions" and a missing "current".
NormalizeManifest(m) ==
    [versions |-> IF "versions" \in DOMAIN m THEN m.versions ELSE <<>>,
     current  |-> IF "current" \in DOMAIN m THEN m.current ELSE None]

\* Line 229: any(v.get("version") == version for v in manifest["versions"]).
Listed(vs, version) == \E i \in 1..Len(vs) : vs[i].version = version

\* Mutant of AppendEntry: the manifest is rebuilt around the new list and
\* `current` is reset.
M_AppendEntryResetsCurrent(m, version, note, now) ==
    [versions |-> Append(m.versions,
                         [version |-> version, note |-> note, created_at |-> now]),
     current  |-> None]

\* Line 232: manifest["versions"].append({...}); every other field is kept.
AppendEntry(m, version, note, now) ==
    [m EXCEPT !.versions =
        Append(@, [version |-> version, note |-> note, created_at |-> now])]

\* _s3_exists (lines 76-85) on a version key and on the manifest key.
VersionExists(version) == objects[version] # Absent
ManifestExists == manifest # NoManifest

\* prompts_list_versions (lines 187-193): the stored JSON, or the default.
prompts_list_versions == IF ManifestExists THEN manifest[1] ELSE EmptyManifest

\* ------------------------------------------------------------------- init

\* Strings that are inspected character by character are sequences of
\* one-character strings.
Slash == "/"
DefaultConfig == [sessions_prefix |-> <<"s">>, metrics_prefix |-> <<"m", Slash>>]
NoRequest == [op |-> "none", key |-> <<>>, session_id |-> <<>>, agent_id |-> <<>>]
NoOutcome == [raised |-> "", returned |-> <<>>]

\* A listing call without its cursor, and the walk of a client that has not
\* listed anything.  An absent cursor (None) and "" are both <<>>: line 102
\* tests the cursor for truth.
NoToken == <<>>
NoCall == [op |-> "none", session_id |-> <<>>, agent_id |-> <<>>,
           date_prefix |-> <<>>, limit |-> 0]
NoPager == [call |-> NoCall, token |-> NoToken, truncated |-> FALSE,
            items |-> <<>>, pages |-> 0, emptyPage |-> FALSE]

NoSnapshot == [unused |-> FALSE, current |-> None]

NoEffects == [ops |-> 0, changed |-> FALSE]

NoArgs == [version |-> "", content |-> "c1", note |-> None]

Init ==
    /\ objects = [l \in Labels |-> Absent]
    /\ manifest \in {NoManifest, <<EmptyManifest>>,
                     <<[versions |-> <<>>]>>, <<[current |-> None]>>}
    /\ pc = [p \in Callers |-> "idle"]
    /\ args = [p \in Callers |-> NoArgs]
    /\ local = [p \in Callers |-> EmptyManifest]
    /\ result = [p \in Callers |-> "none"]
    /\ clock = 0
    /\ first = [l \in Labels |-> Absent]
    /\ seen = [p \in Callers |-> NoManifest]
    /\ started = NoSnapshot
    /\ effects = [p \in Callers |-> NoEffects]
    /\ cfg = DefaultConfig
    /\ bucket = {}
    /\ req = NoRequest
    /\ s3log = <<>>
    /\ outcome = NoOutcome
    /\ pager = NoPager

\* ------------------------------------------- prompts_create_version steps

\* One more S3 operation issued by caller p; `wrote` tells whether it
\* replaced a stored object by a different value.
Issued(p, wrote) ==
    effects' = [effects EXCEPT ![p] = [ops |-> @.ops + 1,
                                       changed |-> @.changed \/ wrote]]

\* Raise: the call ends with an error.
Raise(p, err) ==
    /\ pc' = [pc EXCEPT ![p] = "done"]
    /\ result' = [result EXCEPT ![p] = err]

\* A variant of the entry that probes the version key before it validates
\* the arguments.
M_EnterChecksLate(p, v, c, n) ==
    /\ pc[p] = "idle"
    /\ \A q \in Callers : q < p => pc[q] # "idle"
    /\ args' = [args EXCEPT ![p] = [version |-> v, content |-> c, note |-> n]]
    /\ IF v = ""
          THEN /\ Raise(p, "version is required")
               /\ Issued(p, FALSE)
          ELSE /\ pc' = [pc EXCEPT ![p] = "head_version"]
               /\ UNCHANGED <<result, effects>>
    /\ UNCHANGED <<objects, manifest, local, clock, first, seen, rvars>>

\* Lines 197-211: entry; an empty version is rejected before any S3 call.
\* Callers are interchangeable: caller p is the p-th to issue its call.
Enter(p, v, c, n) ==
    /\ pc[p] = "idle"
    /\ \A q \in Callers : q < p => pc[q] # "idle"
    /\ args' = [args EXCEPT ![p] = [version |-> v, content |-> c, note |-> n]]
    /\ IF v = ""
          THEN Raise(p, "version is required")
          ELSE /\ pc' = [pc EXCEPT ![p] = "head_version"]
               /\ UNCHANGED result
    /\ UNCHANGED <<objects, manifest, local, clock, first, seen, effects, rvars>>

Call(p) ==
    /\ \E v \in VersionArgs, c \in Contents, n \in Notes : Enter(p, v, c, n)
    /\ UNCHANGED started

\* Lines 213-215: _s3_exists(version_key); raise when the object exists.
HeadVersion(p) ==
    /\ pc[p] = "head_version"
    /\ IF VersionExists(args[p].version)
          THEN Raise(p, "Prompt version already exists")
          ELSE /\ pc' = [pc EXCEPT ![p] = "put_version"]
               /\ UNCHANGED result
    /\ Issued(p, FALSE)
    /\ UNCHANGED <<objects, manifest, args, local, clock, first, seen, started, rvars>>

\* A variant that goes on to the manifest without storing the version object.
M_PutVersionSkipped(p) ==
    /\ pc[p] = "put_version"
    /\ pc' = [pc EXCEPT ![p] = "head_manifest"]
    /\ Issued(p, FALSE)
    /\ UNCHANGED <<objects, first, manifest, args, local, result, clock, seen,
                   started, rvars>>

\* Line 217: _s3_put_text(version_key, content): an unconditional put_object.
PutVersion(p) ==
    /\ pc[p] = "put_version"
    /\ objects' = [objects EXCEPT ![args[p].version] = args[p].content]
    /\ first' = IF first[args[p].version] = Absent
                   THEN [first EXCEPT ![args[p].version] = args[p].content]
                   ELSE first
    /\ pc' = [pc EXCEPT ![p] = "head_manifest"]
    /\ Issued(p, objects[args[p].version] # args[p].content)
    /\ UNCHANGED <<manifest, args, local, result, clock, seen, started, rvars>>

\* Lines 229-232 on the manifest `m` the caller holds: the duplicate check,
\* then the append with time.time().
CheckAndAppend(p, m) ==
    IF Listed(m.versions, args[p].version)
       THEN /\ Raise(p, "Prompt version already listed in manifest")
            /\ UNCHANGED <<local, clock>>
       ELSE /\ local' = [local EXCEPT ![p] =
                            AppendEntry(m, args[p].version, args[p].note, clock)]
            /\ clock' = clock + 1
            /\ pc' = [pc EXCEPT ![p] = "put_manifest"]
            /\ UNCHANGED result

\* Line 220: _s3_exists(manifest_key).  When absent, lines 226-232 run on
\* the empty manifest without another S3 call.
HeadManifest(p) ==
    /\ pc[p] = "head_manifest"
    /\ IF ManifestExists
          THEN /\ pc' = [pc EXCEPT ![p] = "get_manifest"]
               /\ UNCHANGED <<local, result, clock, seen>>
          ELSE /\ seen' = [seen EXCEPT ![p] = NoManifest]
               /\ CheckAndAppend(p, EmptyManifest)
    /\ Issued(p, FALSE)
    /\ UNCHANGED <<objects, manifest, args, first, started, rvars>>

\* Lines 221-232: _s3_get_json(manifest_key), defaults, duplicate check, append.
GetManifest(p) ==
    /\ pc[p] = "get_manifest"
    /\ seen' = [seen EXCEPT ![p] = manifest]
    /\ CheckAndAppend(p, NormalizeManifest(manifest[1]))
    /\ Issued(p, FALSE)
    /\ UNCHANGED <<objects, manifest, args, first, started, rvars>>

\* Lines 234-236: _s3_put_text(manifest_key, json.dumps(manifest)): an
\* unconditional put_object, then the success result.
PutManifest(p) ==
    /\ pc[p] = "put_manifest"
    /\ manifest' = <<local[p]>>
    /\ pc' = [pc EXCEPT ![p] = "done"]
    /\ result' = [result EXCEPT ![p] = "ok"]
    /\ Issued(p, manifest # <<local[p]>>)
    /\ UNCHANGED <<objects, args, local, clock, first, seen, started, rvars>>

\* A JSON object with its "current" key set to l, its other keys kept.
WithCurrent(m, l) ==
    IF "versions" \in DOMAIN m
       THEN [versions |-> m.versions, current |-> l]
       ELSE [current |-> l]

\* Another process of the hub (the owner of the `current` pointer) replaces
\* `current` in versions.json with an existing version's label.
SetCurrent ==
    /\ ManifestExists
    /\ \E l \in Labels :
          /\ VersionExists(l)
          /\ NormalizeManifest(manifest[1]).current # l
          /\ manifest' = <<WithCurrent(manifest[1], l)>>
    /\ UNCHANGED <<objects, pc, args, local, result, clock, first, seen, started,
                   effects, rvars>>

Step(p) ==
    \/ HeadVersion(p)
    \/ PutVersion(p)
    \/ HeadManifest(p)
    \/ GetManifest(p)
    \/ PutManifest(p)

\* Any number of concurrent prompts_create_version calls, interleaved at
\* their S3 operations.
Next ==
    \/ \E p \in Callers : Call(p)
    \/ \E p \in Callers : Step(p)

Spec == Init /\ [][Next]_vars

\* The same, with the other process that owns the `current` pointer.
NextEnv ==
    \/ \E p \in Callers : Call(p)
    \/ \E p \in Callers : Step(p)
    \/ SetCurrent

SpecEnv == Init /\ [][NextEnv]_vars

\* Calls issued one after another by a single client: a call begins only
\* when no call is in progress, and nothing else writes during a call.
Quiet == \A p \in Callers : pc[p] \in {"idle", "done"}

SeqCall(p) ==
    /\ Quiet
    /\ \E v \in VersionArgs, c \in Contents, n \in Notes :
          /\ Enter(p, v, c, n)
          /\ started' = [unused  |-> /\ v \in Labels
                                      /\ ~VersionExists(v)
                                      /\ ~Listed(NormalizeManifest(prompts_list_versions).versions, v),
                         current |-> NormalizeManifest(prompts_list_versions).current]

NextSeq ==
    \/ \E p \in Callers : SeqCall(p)
    \/ \E p \in Callers : Step(p)
    \/ Quiet /\ SetCurrent

SpecSeq == Init /\ [][NextSeq]_vars

\* An S3 operation of the call fails with a store error (a ClientError other
\* than the 404 that _s3_exists absorbs): the operation has no effect and the
\* exception leaves prompts_create_version, which catches nothing.
Fault(p) ==
    /\ pc[p] \in {"head_version", "put_version", "head_manifest", "get_manifest",
                  "put_manifest"}
    /\ Raise(p, "ClientError")
    /\ Issued(p, FALSE)
    /\ UNCHANGED <<objects, manifest, args, local, clock, first, seen, started, rvars>>

\* Calls issued one after another, each S3 operation of which may fail.
NextFault ==
    \/ \E p \in Callers : SeqCall(p)
    \/ \E p \in Callers : Step(p)
    \/ \E p \in Callers : Fault(p)

SpecFault == Init /\ [][NextFault]_vars

\* ------------------------------------------- metrics / sessions fetches

\* Bound on the length of a caller-supplied key or name.
MaxKeyLen == 4

KeyChars == {"s", "m", "x", ".", Slash}

\* The strings over KeyChars of length exactly n, and of length up to n.
StringsOfLen[n \in Nat] ==
    IF n = 0 THEN {<<>>}
    ELSE {Append(k, ch) : k \in StringsOfLen[n - 1], ch \in KeyChars}

StringsUpTo(n) == UNION {StringsOfLen[i] : i \in 0..n}

\* Caller-supplied keys and short names.
Keys == StringsUpTo(MaxKeyLen)

\* Caller-supplied session and agent identifiers.
SessionIds == {<<"a">>}
AgentIds == {<<"d">>}

\* Object bodies (bytes): UTF-8 text that parses as JSON, UTF-8 text that
\* does not, and bytes that are not valid UTF-8.
JsonBody == "{\"a\":1}"
TextBody == "not json"
BinaryBody == "\\xff"

\* bytes.decode("utf-8") (line 59).
Utf8Decode(body) ==
    IF body = BinaryBody THEN [ok |-> FALSE, text |-> ""]
    ELSE [ok |-> TRUE, text |-> body]

\* json.loads on the decoded texts above.
JsonLoads(text) ==
    IF text = JsonBody THEN [ok |-> TRUE, value |-> [a |-> 1]]
    ELSE [ok |-> FALSE, value |-> [a |-> 0]]

\* str.startswith.
StartsWith(str, prefix) ==
    Len(prefix) <= Len(str) /\ SubSeq(str, 1, Len(prefix)) = prefix

\* str.lstrip("/").
RECURSIVE LStripSlash(_)
LStripSlash(str) ==
    IF str # <<>> /\ Head(str) = Slash THEN LStripSlash(Tail(str)) ELSE str

\* _ensure_trailing_slash (lines 47-48).
ensure_trailing_slash(prefix) ==
    IF prefix # <<>> /\ prefix[Len(prefix)] = Slash THEN prefix
    ELSE Append(prefix, Slash)

\* _sessions_root (lines 51-53).
sessions_root == ensure_trailing_slash(cfg.sessions_prefix)

\* Line 384: f"{root}{session_id}/agents/{agent_id}/messages/".
MessagesBase(session_id, agent_id) ==
    sessions_root \o session_id \o <<Slash, "a", "g", "e", "n", "t", "s", Slash>>
        \o agent_id \o <<Slash, "m", "e", "s", "s", "a", "g", "e", "s", Slash>>

\* Line 385: a full key is kept, anything else is taken as a name under base.
ResolveMessageKey(base, message_key) ==
    IF StartsWith(message_key, base) THEN message_key
    ELSE base \o LStripSlash(message_key)

Raised(err) == [raised |-> err, returned |-> <<>>]
Returned(value) == [raised |-> "", returned |-> <<value>>]

\* s3.get_object (line 58): the body at key, or NoSuchKey.
GetObject(key) ==
    IF \E o \in bucket : o[1] = key
       THEN [found |-> TRUE, body |-> (CHOOSE o \in bucket : o[1] = key)[2]]
       ELSE [found |-> FALSE, body |-> ""]

GetObjectCall(key) == [op |-> "get_object", key |-> key]

\* _s3_get_json (lines 62-63) as the result of the handler that returns it.
s3_get_json(key) ==
    LET got == GetObject(key) IN
        IF ~got.found THEN Raised("NoSuchKey")
        ELSE IF ~Utf8Decode(got.body).ok THEN Raised("UnicodeDecodeError")
        ELSE IF JsonLoads(Utf8Decode(got.body).text).ok
             THEN Returned(JsonLoads(Utf8Decode(got.body).text).value)
        ELSE Raised("JSONDecodeError")

\* Mutant of MetricsGet: the prefix check is skipped.
M_MetricsGetUnchecked(s3_key) ==
    /\ req' = [op |-> "metrics_get", key |-> s3_key,
               session_id |-> <<>>, agent_id |-> <<>>]
    /\ s3log' = <<GetObjectCall(s3_key)>>
    /\ outcome' = s3_get_json(s3_key)
    /\ UNCHANGED <<cfg, bucket, pager, pvars>>

\* metrics_get (lines 280-285).
MetricsGet(s3_key) ==
    /\ req' = [op |-> "metrics_get", key |-> s3_key,
               session_id |-> <<>>, agent_id |-> <<>>]
    /\ IF ~StartsWith(s3_key, cfg.metrics_prefix)
          THEN /\ s3log' = <<>>
               /\ outcome' = Raised("s3_key must be under metrics prefix")
          ELSE /\ s3log' = <<GetObjectCall(s3_key)>>
               /\ outcome' = s3_get_json(s3_key)
    /\ UNCHANGED <<cfg, bucket, pager, pvars>>

\* sessions_get_raw (lines 394-408): parsed JSON when the body parses, the
\* text otherwise.
SessionsGetRaw(s3_key) ==
    /\ req' = [op |-> "sessions_get_raw", key |-> s3_key,
               session_id |-> <<>>, agent_id |-> <<>>]
    /\ IF ~StartsWith(s3_key, sessions_root)
          THEN /\ s3log' = <<>>
               /\ outcome' = Raised("s3_key must be under sessions prefix")
          ELSE /\ s3log' = <<GetObjectCall(s3_key)>>
               /\ outcome' =
                    LET got == GetObject(s3_key) IN
                        IF ~got.found THEN Raised("NoSuchKey")
                        ELSE IF ~Utf8Decode(got.body).ok
                             THEN Raised("UnicodeDecodeError")
                        ELSE IF JsonLoads(Utf8Decode(got.body).text).ok
                             THEN Returned([s3_key |-> s3_key,
                                            json |-> JsonLoads(Utf8Decode(got.body).text).value])
                        ELSE Returned([s3_key |-> s3_key,
                                       text |-> Utf8Decode(got.body).text])
    /\ UNCHANGED <<cfg, bucket, pager, pvars>>

\* sessions_get_message_json (lines 378-390).
SessionsGetMessageJson(session_id, message_key, agent_id) ==
    LET base == MessagesBase(session_id, agent_id)
        key  == ResolveMessageKey(base, message_key)
    IN  /\ req' = [op |-> "sessions_get_message_json", key |-> message_key,
                   session_id |-> session_id, agent_id |-> agent_id]
        /\ IF ~StartsWith(key, base)
              THEN /\ s3log' = <<>>
                   /\ outcome' = Raised("message_key must be under the session messages prefix")
              ELSE /\ s3log' = <<GetObjectCall(key)>>
                   /\ outcome' = s3_get_json(key)
        /\ UNCHANGED <<cfg, bucket, pager, pvars>>

\* Objects another process may have put under the metrics and sessions
\* namespaces before the server is started.
SomeObjects ==
    {<< <<"m", Slash, "x">>, JsonBody >>,
     << <<"s", Slash, "x">>, TextBody >>,
     << <<"s", Slash, "m">>, BinaryBody >>,
     << MessagesBase(<<"a">>, <<"d">>) \o <<"x">>, JsonBody >>}

InitRead ==
    /\ objects = [l \in Labels |-> Absent]
    /\ manifest = NoManifest
    /\ pc = [p \in Callers |-> "idle"]
    /\ args = [p \in Callers |-> NoArgs]
    /\ local = [p \in Callers |-> EmptyManifest]
    /\ result = [p \in Callers |-> "none"]
    /\ clock = 0
    /\ first = [l \in Labels |-> Absent]
    /\ seen = [p \in Callers |-> NoManifest]
    /\ started = NoSnapshot
    /\ effects = [p \in Callers |-> NoEffects]
    /\ cfg \in [sessions_prefix : {<<"s">>, <<"s", Slash>>},
                 metrics_prefix  : {<<"m", Slash>>}]
    /\ bucket \in SUBSET SomeObjects
    /\ req = NoRequest
    /\ s3log = <<>>
    /\ outcome = NoOutcome
    /\ pager = NoPager

\* The response is delivered; the server waits for the next request.
Respond ==
    /\ req # NoRequest
    /\ req' = NoRequest
    /\ s3log' = <<>>
    /\ outcome' = NoOutcome
    /\ UNCHANGED <<cfg, bucket, pager, pvars>>

\* message_key arguments: short names, and full keys under the messages prefix.
MessageKeys(session_id, agent_id) ==
    Keys \cup {MessagesBase(session_id, agent_id) \o k : k \in Keys}

\* The server takes one request at a time from the client; the handlers
\* keep no state between requests.
Idle == req = NoRequest

NextRead ==
    \/ Idle /\ \E k \in Keys : MetricsGet(k)
    \/ Idle /\ \E k \in Keys : SessionsGetRaw(k)
    \/ Idle /\ \E sid \in SessionIds, aid \in AgentIds :
                  \E mk \in MessageKeys(sid, aid) :
                      SessionsGetMessageJson(sid, mk, aid)
    \/ Respond

SpecRead == InitRead /\ [][NextRead]_vars

\* ------------------------------------------------ metrics / sessions lists

\* The characters of the keys in the bucket, in code-point order (the order
\* in which S3 lists keys).
CharOrder == <<".", Slash, "1", "2", "_", "a", "b", "c", "d", "e", "g", "i", "j",
               "m", "n", "o", "s", "t", "x">>

Rank(ch) == CHOOSE i \in 1..Len(CharOrder) : CharOrder[i] = ch

\* a < b for strings.
RECURSIVE Less(_, _)
Less(a, b) ==
    IF a = <<>> THEN b # <<>>
    ELSE IF b = <<>> THEN FALSE
    ELSE IF Head(a) = Head(b) THEN Less(Tail(a), Tail(b))
    ELSE Rank(Head(a)) < Rank(Head(b))

\* The entries of a set E of listing entries in ascending order of name.
RECURSIVE Ascending(_)
Ascending(E) ==
    IF E = {} THEN <<>>
    ELSE LET least == CHOOSE e \in E : \A f \in E : f = e \/ Less(e.name, f.name)
         IN  <<least>> \o Ascending(E \ {least})

\* Position of the first "/" of a string that has one.
FirstSlash(str) ==
    CHOOSE i \in 1..Len(str) : str[i] = Slash /\ \A j \in 1..(i - 1) : str[j] # Slash

HasSlash(str) == \E i \in 1..Len(str) : str[i] = Slash

\* What S3 lists for one key under Prefix: with Delimiter="/", a key with a
\* "/" after the prefix is rolled up into its common prefix.
Entry(key, prefix, delimited) ==
    LET rest == SubSeq(key, Len(prefix) + 1, Len(key)) IN
        IF delimited /\ HasSlash(rest)
           THEN [name |-> prefix \o SubSeq(rest, 1, FirstSlash(rest)), folder |-> TRUE]
           ELSE [name |-> key, folder |-> FALSE]

Entries(prefix, delimited) ==
    {Entry(o[1], prefix, delimited) : o \in {b \in bucket : StartsWith(b[1], prefix)}}

\* A variant of list_objects_v2 that ignores ContinuationToken.
M_ListObjectsV2Restarts(prefix, delimited, max_keys, token) ==
    LET all  == Ascending(Entries(prefix, delimited))
        n    == IF Len(all) < max_keys THEN Len(all) ELSE max_keys
        page == SubSeq(all, 1, n)
    IN  [CommonPrefixes |-> SelectSeq(page, LAMBDA e : e.folder),
         Contents |-> SelectSeq(page, LAMBDA e : ~e.folder),
         IsTruncated |-> n < Len(all),
         NextContinuationToken |-> IF n < Len(all) THEN page[n].name ELSE NoToken]

\* s3.list_objects_v2 (lines 105, 267, 367): at most MaxKeys entries (keys and
\* common prefixes together) in ascending order after the position the
\* token stands for; IsTruncated and NextContinuationToken when more remain.
\* The opaque token is modelled by the name of the last entry returned.
ListObjectsV2(prefix, delimited, max_keys, token) ==
    LET all  == Ascending({e \in Entries(prefix, delimited) : Less(token, e.name)})
        n    == IF Len(all) < max_keys THEN Len(all) ELSE max_keys
        page == SubSeq(all, 1, n)
    IN  [CommonPrefixes |-> SelectSeq(page, LAMBDA e : e.folder),
         Contents |-> SelectSeq(page, LAMBDA e : ~e.folder),
         IsTruncated |-> n < Len(all),
         NextContinuationToken |-> IF n < Len(all) THEN page[n].name ELSE NoToken]

ListCall(prefix) == [op |-> "list_objects_v2", key |-> prefix]

\* Lines 100, 262, 362: max(1, min(limit, 1000)).
MaxKeysCap == 1000
MaxKeys(limit) ==
    LET capped == IF limit < MaxKeysCap THEN limit ELSE MaxKeysCap
    IN  IF capped < 1 THEN 1 ELSE capped

Names(entries) == [i \in 1..Len(entries) |-> entries[i].name]

\* _list_common_prefixes (lines 86-112).
list_common_prefixes(prefix, limit, continuation_token) ==
    LET resp == ListObjectsV2(ensure_trailing_slash(prefix), TRUE, MaxKeys(limit),
                              continuation_token)
    IN  [prefixes |-> Names(resp.CommonPrefixes),
         next_continuation_token |-> resp.NextContinuationToken,
         is_truncated |-> resp.IsTruncated]

\* str.rstrip("/").
RECURSIVE RStripSlash(_)
RStripSlash(str) ==
    IF str # <<>> /\ str[Len(str)] = Slash
       THEN RStripSlash(SubSeq(str, 1, Len(str) - 1))
       ELSE str

\* Lines 303, 328: [p[len(root):].rstrip("/") for p in prefixes if p.startswith(root)].
BareNames(prefixes, root) ==
    LET under == SelectSeq(prefixes, LAMBDA p : StartsWith(p, root))
    IN  [i \in 1..Len(under) |->
            RStripSlash(SubSeq(under[i], Len(root) + 1, Len(under[i])))]

\* k.split("/")[-1] (line 270).
M_LastSegmentWholeKey(key) == key

LastSegment(key) ==
    IF HasSlash(key)
       THEN LET last == CHOOSE i \in 1..Len(key) :
                            key[i] = Slash /\ \A j \in (i + 1)..Len(key) : key[j] # Slash
            IN  SubSeq(key, last + 1, Len(key))
       ELSE key

\* sorted(keys) (line 371).
Sorted(keys) ==
    Names(Ascending({[name |-> keys[i], folder |-> FALSE] : i \in 1..Len(keys)}))

AgentsDir == <<Slash, "a", "g", "e", "n", "t", "s", Slash>>
SessionJson == <<Slash, "s", "e", "s", "s", "i", "o", "n", ".", "j", "s", "o", "n">>
AgentJson == <<Slash, "a", "g", "e", "n", "t", ".", "j", "s", "o", "n">>
ManifestKey == <<"v", "e", "r", "s", "i", "o", "n", "s", ".", "j", "s", "o", "n">>

HeadObjectCall(key) == [op |-> "head_object", key |-> key]

\* The client follows the cursor: a listing begins without a cursor, and
\* while the latest page was truncated the same call is repeated with the
\* cursor that page returned.
CursorFor(call) ==
    IF pager.truncated
       THEN IF pager.call = call THEN {pager.token} ELSE {}
       ELSE {NoToken}

\* The client appends the page to what it has collected for the listing.
Walk(call, page, token, truncated) ==
    LET resumed == pager.truncated IN
        [call |-> call, token |-> token, truncated |-> truncated,
         items |-> (IF resumed THEN pager.items ELSE <<>>) \o page,
         pages |-> (IF resumed THEN pager.pages ELSE 0) + 1,
         emptyPage |-> \/ resumed /\ pager.emptyPage
                       \/ truncated /\ page = <<>>]

\* sessions_list (lines 293-310).
SessionsList(limit, continuation_token) ==
    LET root == sessions_root
        resp == list_common_prefixes(root, limit, continuation_token)
        session_ids == BareNames(resp.prefixes, root)
    IN  /\ req' = [NoRequest EXCEPT !.op = "sessions_list"]
        /\ s3log' = <<ListCall(ensure_trailing_slash(root))>>
        /\ outcome' = Returned([session_ids |-> session_ids,
                                session_prefixes |-> resp.prefixes,
                                next_continuation_token |-> resp.next_continuation_token,
                                is_truncated |-> resp.is_truncated])
        /\ pager' = Walk([NoCall EXCEPT !.op = "sessions_list", !.limit = limit],
                         session_ids, resp.next_continuation_token, resp.is_truncated)
        /\ UNCHANGED <<cfg, bucket, pvars>>

\* sessions_get_session_json (lines 313-318).
SessionsGetSessionJson(session_id) ==
    LET key == sessions_root \o session_id \o SessionJson IN
        /\ req' = [NoRequest EXCEPT !.op = "sessions_get_session_json",
                                    !.session_id = session_id]
        /\ s3log' = <<GetObjectCall(key)>>
        /\ outcome' = s3_get_json(key)
        /\ UNCHANGED <<cfg, bucket, pager, pvars>>

\* sessions_list_agents (lines 321-335).
SessionsListAgents(session_id, limit, continuation_token) ==
    LET agents_prefix == sessions_root \o session_id \o AgentsDir
        resp == list_common_prefixes(agents_prefix, limit, continuation_token)
        agent_ids == BareNames(resp.prefixes, agents_prefix)
    IN  /\ req' = [NoRequest EXCEPT !.op = "sessions_list_agents",
                                    !.session_id = session_id]
        /\ s3log' = <<ListCall(ensure_trailing_slash(agents_prefix))>>
        /\ outcome' = Returned([agent_ids |-> agent_ids,
                                agent_prefixes |-> resp.prefixes,
                                next_continuation_token |-> resp.next_continuation_token,
                                is_truncated |-> resp.is_truncated])
        /\ pager' = Walk([NoCall EXCEPT !.op = "sessions_list_agents",
                                        !.session_id = session_id, !.limit = limit],
                         agent_ids, resp.next_continuation_token, resp.is_truncated)
        /\ UNCHANGED <<cfg, bucket, pvars>>

\* sessions_get_agent_json (lines 338-343).
SessionsGetAgentJson(session_id, agent_id) ==
    LET key == sessions_root \o session_id \o AgentsDir \o agent_id \o AgentJson IN
        /\ req' = [NoRequest EXCEPT !.op = "sessions_get_agent_json",
                                    !.session_id = session_id, !.agent_id = agent_id]
        /\ s3log' = <<GetObjectCall(key)>>
        /\ outcome' = s3_get_json(key)
        /\ UNCHANGED <<cfg, bucket, pager, pvars>>

\* sessions_list_messages (lines 346-374).
SessionsListMessages(session_id, agent_id, limit, continuation_token) ==
    LET prefix == MessagesBase(session_id, agent_id)
        resp == ListObjectsV2(prefix, FALSE, MaxKeys(limit), continuation_token)
        keys == Sorted(Names(resp.Contents))
    IN  /\ req' = [NoRequest EXCEPT !.op = "sessions_list_messages",
                                    !.session_id = session_id, !.agent_id = agent_id]
        /\ s3log' = <<ListCall(prefix)>>
        /\ outcome' = Returned([keys |-> keys,
                                next_continuation_token |-> resp.NextContinuationToken,
                                is_truncated |-> resp.IsTruncated])
        /\ pager' = Walk([NoCall EXCEPT !.op = "sessions_list_messages",
                                        !.session_id = session_id,
                                        !.agent_id = agent_id, !.limit = limit],
                         keys, resp.NextContinuationToken, resp.IsTruncated)
        /\ UNCHANGED <<cfg, bucket, pvars>>

\* metrics_list (lines 244-276); an absent date_prefix or agent_id is <<>>.
MetricsList(date_prefix, agent_id, limit, continuation_token) ==
    LET prefix == IF date_prefix # <<>>
                     THEN cfg.metrics_prefix \o date_prefix \o <<Slash>>
                     ELSE cfg.metrics_prefix
        resp == ListObjectsV2(prefix, FALSE, MaxKeys(limit), continuation_token)
        listed == Names(resp.Contents)
        keys == IF agent_id # <<>>
                   THEN SelectSeq(listed,
                            LAMBDA k : StartsWith(LastSegment(k), agent_id \o <<"_">>))
                   ELSE listed
    IN  /\ req' = [NoRequest EXCEPT !.op = "metrics_list", !.agent_id = agent_id]
        /\ s3log' = <<ListCall(prefix)>>
        /\ outcome' = Returned([keys |-> keys,
                                next_continuation_token |-> resp.NextContinuationToken,
                                is_truncated |-> resp.IsTruncated])
        /\ pager' = Walk([NoCall EXCEPT !.op = "metrics_list", !.agent_id = agent_id,
                                        !.date_prefix = date_prefix, !.limit = limit],
                         keys, resp.NextContinuationToken, resp.IsTruncated)
        /\ UNCHANGED <<cfg, bucket, pvars>>

\* A variant of prompts_list_versions that stores the default manifest when
\* versions.json is missing.
M_PromptsListVersionsCreates ==
    /\ req' = [NoRequest EXCEPT !.op = "prompts_list_versions"]
    /\ IF ManifestExists
          THEN /\ s3log' = <<HeadObjectCall(ManifestKey), GetObjectCall(ManifestKey)>>
               /\ outcome' = Returned(manifest[1])
               /\ UNCHANGED manifest
          ELSE /\ s3log' = <<HeadObjectCall(ManifestKey),
                             [op |-> "put_object", key |-> ManifestKey]>>
               /\ outcome' = Returned(EmptyManifest)
               /\ manifest' = <<EmptyManifest>>
    /\ UNCHANGED <<objects, pc, args, local, result, clock, first, seen, started,
                   effects, cfg, bucket, pager>>

\* prompts_list_versions (lines 186-193) as a request to the server.
PromptsListVersions ==
    /\ req' = [NoRequest EXCEPT !.op = "prompts_list_versions"]
    /\ IF ManifestExists
          THEN /\ s3log' = <<HeadObjectCall(ManifestKey), GetObjectCall(ManifestKey)>>
               /\ outcome' = Returned(manifest[1])
          ELSE /\ s3log' = <<HeadObjectCall(ManifestKey)>>
               /\ outcome' = Returned(EmptyManifest)
    /\ UNCHANGED <<cfg, bucket, pager, pvars>>

\* Objects written by the agents under the sessions and metrics namespaces:
\* groups of objects that are present together.
BrowseObjects ==
    {{<< <<"s", Slash, "a">> \o SessionJson, JsonBody >>,
      << <<"s", Slash, "a">> \o AgentsDir \o <<"d">> \o AgentJson, JsonBody >>,
      << MessagesBase(<<"a">>, <<"d">>) \o <<"x">>, JsonBody >>},
     {<< <<"s", Slash, "a">> \o AgentsDir \o <<"e">> \o AgentJson, JsonBody >>,
      << <<"s", Slash, "b">> \o SessionJson, JsonBody >>},
     {<< <<"s", Slash, "c">> \o SessionJson, JsonBody >>,
      << <<"s", Slash, "x">>, TextBody >>},
     {<< <<"m", Slash, "d", Slash, "a", "_", "1">>, JsonBody >>,
      << <<"m", Slash, "d", Slash, "b", "_", "1">>, JsonBody >>},
     {<< <<"m", Slash, "d", Slash, "a", "_", "2">>, JsonBody >>}}

\* Arguments of the requests.
Limits == {0, 1, 2, MaxKeysCap + 1}
DatePrefixes == {<<>>, <<"d">>}
AgentFilters == {<<>>, <<"a">>, <<"b">>}
FetchKeys == {<<"m", Slash, "d", Slash, "a", "_", "1">>, <<"s", Slash, "x">>}

InitBrowse ==
    /\ objects = [l \in Labels |-> Absent]
    /\ manifest \in {NoManifest, <<EmptyManifest>>}
    /\ pc = [p \in Callers |-> "idle"]
    /\ args = [p \in Callers |-> NoArgs]
    /\ local = [p \in Callers |-> EmptyManifest]
    /\ result = [p \in Callers |-> "none"]
    /\ clock = 0
    /\ first = [l \in Labels |-> Absent]
    /\ seen = [p \in Callers |-> NoManifest]
    /\ started = NoSnapshot
    /\ effects = [p \in Callers |-> NoEffects]
    /\ cfg = DefaultConfig
    /\ bucket \in {UNION G : G \in SUBSET BrowseObjects}
    /\ req = NoRequest
    /\ s3log = <<>>
    /\ outcome = NoOutcome
    /\ pager = NoPager

\* The ten read-only requests, one at a time; listings follow the cursor.
NextBrowse ==
    \/ Idle /\ \E l \in Limits :
          \E t \in CursorFor([NoCall EXCEPT !.op = "sessions_list", !.limit = l]) :
              SessionsList(l, t)
    \/ Idle /\ \E sid \in SessionIds, l \in Limits :
          \E t \in CursorFor([NoCall EXCEPT !.op = "sessions_list_agents",
                                            !.session_id = sid, !.limit = l]) :
              SessionsListAgents(sid, l, t)
    \/ Idle /\ \E sid \in SessionIds, aid \in AgentIds, l \in Limits :
          \E t \in CursorFor([NoCall EXCEPT !.op = "sessions_list_messages",
                                            !.session_id = sid, !.agent_id = aid,
                                            !.limit = l]) :
              SessionsListMessages(sid, aid, l, t)
    \/ Idle /\ \E d \in DatePrefixes, aid \in AgentFilters, l \in Limits :
          \E t \in CursorFor([NoCall EXCEPT !.op = "metrics_list", !.agent_id = aid,
                                            !.date_prefix = d, !.limit = l]) :
              MetricsList(d, aid, l, t)
    \/ Idle /\ \E k \in FetchKeys : MetricsGet(k)
    \/ Idle /\ \E k \in FetchKeys : SessionsGetRaw(k)
    \/ Idle /\ \E sid \in SessionIds, aid \in AgentIds :
          SessionsGetMessageJson(sid, <<"x">>, aid)
    \/ Idle /\ \E sid \in SessionIds : SessionsGetSessionJson(sid)
    \/ Idle /\ \E sid \in SessionIds, aid \in AgentIds : SessionsGetAgentJson(sid, aid)
    \/ Idle /\ PromptsListVersions
    \/ Respond

SpecBrowse == InitBrowse /\ [][NextBrowse]_vars

\* --------------------------------------------------- observation helpers

\* The version list and the current pointer a reader finds in the bucket.
StoredVersions(st) == NormalizeManifest(IF st = NoManifest THEN EmptyManifest ELSE st[1]).versions
StoredCurrent(st) == NormalizeManifest(IF st = NoManifest THEN EmptyManifest ELSE st[1]).current

IsPrefix(s, t) == Len(s) <= Len(t) /\ \A i \in 1..Len(s) : s[i] = t[i]

\* Number of entries of the stored version list that carry label l.
Count(l) == Cardinality({i \in 1..Len(StoredVersions(manifest)) :
                            StoredVersions(manifest)[i].version = l})

\* The calls issued for label l, and whether all of them have returned.
CallsFor(l) == {p \in Callers : pc[p] # "idle" /\ args[p].version = l}
AllDone(S) == \A p \in S : pc[p] = "done"

AlreadyExists == {"Prompt version already exists",
                  "Prompt version already listed in manifest"}

\* ----------------------------------------------------------------- claims

\* C1: once a version object exists at its key, its content stays the
\* content it had when the key was first created, whatever the interleaving
\* of the callers' S3 operations.
C1_VersionNeverOverwritten ==
    \A l \in Labels : objects[l] # Absent => objects[l] = first[l]

\* C2: when two or more calls for the same, previously unused label have all
\* returned, exactly one of them returned success and every other one
\* failed with AlreadyExists.
C2_ExactlyOneSucceeds ==
    \A l \in Labels :
        (Cardinality(CallsFor(l)) >= 2 /\ AllDone(CallsFor(l))) =>
            /\ Cardinality({p \in CallsFor(l) : result[p] = "ok"}) = 1
            /\ \A p \in CallsFor(l) : result[p] = "ok" \/ result[p] \in AlreadyExists

\* C3: when two or more calls for pairwise distinct labels have all returned
\* success, the stored manifest lists every one of their labels.
C3_NoLostUpdate ==
    LET S == {p \in Callers : pc[p] # "idle"} IN
        ( /\ Cardinality(S) >= 2
          /\ \A p \in S : pc[p] = "done" /\ result[p] = "ok"
          /\ \A p, q \in S : p # q => args[p].version # args[q].version )
        => \A p \in S : Listed(StoredVersions(manifest), args[p].version)

\* C4: once every call issued for a label has returned, the stored version
\* list holds exactly one entry with that label; and no label ever occurs
\* twice in the stored version list.
C4_ExactlyOneEntry ==
    /\ \A l \in Labels :
          (CallsFor(l) # {} /\ AllDone(CallsFor(l))) => Count(l) = 1
    /\ \A l \in Labels : Count(l) <= 1

\* C5: every manifest write of a call leaves the version list stored before
\* the write as a prefix of the version list stored after it.
C5_VersionListOnlyGrows ==
    [][\A p \in Callers :
          PutManifest(p) =>
              IsPrefix(StoredVersions(manifest), StoredVersions(manifest'))]_vars

\* C6: every manifest write of a call leaves `current` as it was stored
\* immediately before the write, also when another process changed it
\* between the call's read and its write.
C6_CurrentUntouched ==
    [][\A p \in Callers :
          PutManifest(p) => StoredCurrent(manifest') = StoredCurrent(manifest)]_vars

\* C7: a call's manifest write replaces only the manifest value that the
\* same call read.
C7_ConditionalReplace ==
    [][\A p \in Callers : PutManifest(p) => manifest = seen[p]]_vars

C9_ConflictRetriedOrReported ==
    [][\A p \in Callers :
          (pc[p] = "put_manifest" /\ manifest # seen[p] /\ pc'[p] = "done")
              => result'[p] = "ConcurrentUpdateConflict"]_vars

\* The namespace prefix a fetch request's key is expected to lie under.
ExpectedPrefix(r) ==
    IF r.op = "metrics_get" THEN cfg.metrics_prefix
    ELSE IF r.op = "sessions_get_raw" THEN sessions_root
    ELSE MessagesBase(r.session_id, r.agent_id)

Rejections == {"s3_key must be under metrics prefix",
               "s3_key must be under sessions prefix",
               "message_key must be under the session messages prefix"}

OutsideNamespace == req # NoRequest /\ ~StartsWith(req.key, ExpectedPrefix(req))

\* C10 (as claimed): for metrics_get, sessions_get_raw and
\* sessions_get_message_json, a caller-supplied key that does not lie under
\* the operation's namespace prefix is rejected, and no S3 operation is
\* performed for the request.
C10_RejectedBeforeStore ==
    OutsideNamespace => (outcome.raised \in Rejections /\ s3log = <<>>)

\* C10 (amended): metrics_get and sessions_get_raw reject a key outside
\* their prefix without any S3 operation; sessions_get_message_json never
\* rejects such a message_key: it takes it as a name under the messages
\* prefix and performs exactly one get_object, at prefix + message_key
\* stripped of its leading slashes.
C10_RejectedOrResolved ==
    OutsideNamespace =>
        IF req.op \in {"metrics_get", "sessions_get_raw"}
           THEN outcome.raised \in Rejections /\ s3log = <<>>
           ELSE /\ outcome.raised \notin Rejections
                /\ s3log = <<GetObjectCall(ExpectedPrefix(req) \o LStripSlash(req.key))>>
                /\ StartsWith(s3log[1].key, ExpectedPrefix(req))

\* C10 witness: metrics_get was handed a key of the sessions namespace and
\* rejected it without touching S3.
C10_Witness ==
    /\ req.op = "metrics_get"
    /\ StartsWith(req.key, sessions_root)
    /\ ~StartsWith(req.key, cfg.metrics_prefix)
    /\ outcome = Raised("s3_key must be under metrics prefix")
    /\ s3log = <<>>

\* A `..` path segment: two dots between separators or the ends of the key.
HasDotDotSegment(key) ==
    \E i \in 1..(Len(key) - 1) :
        /\ key[i] = "." /\ key[i + 1] = "."
        /\ (i = 1 \/ key[i - 1] = Slash)
        /\ (i + 1 = Len(key) \/ key[i + 2] = Slash)

UnderNamespace == req.op \in {"metrics_get", "sessions_get_raw", "sessions_get_message_json"}
                  /\ StartsWith(req.key, ExpectedPrefix(req))

\* C11: the namespace check of metrics_get, sessions_get_raw and
\* sessions_get_message_json rejects a key that begins with the expected
\* prefix but contains a `..` segment, and passes a key under the prefix
\* without such a segment to S3 unchanged.
C11_PathEscapeRejected ==
    UnderNamespace =>
        IF HasDotDotSegment(req.key)
           THEN outcome.raised \in Rejections /\ s3log = <<>>
           ELSE outcome.raised \notin Rejections /\ s3log = <<GetObjectCall(req.key)>>

\* C14: sessions_get_raw on an existing key under the sessions prefix never
\* fails because of the payload: it returns the parsed JSON value when the
\* payload is valid JSON and the literal text otherwise, exactly one of the
\* two.
C14_RawNeverFailsOnPayload ==
    (req.op = "sessions_get_raw" /\ StartsWith(req.key, sessions_root)
       /\ GetObject(req.key).found) =>
        LET decoded == Utf8Decode(GetObject(req.key).body)
            valid   == decoded.ok /\ JsonLoads(decoded.text).ok
        IN  /\ outcome.raised = ""
            /\ Len(outcome.returned) = 1
            /\ outcome.returned[1].s3_key = req.key
            /\ IF valid
                  THEN outcome.returned[1] =
                          [s3_key |-> req.key, json |-> JsonLoads(decoded.text).value]
                  ELSE DOMAIN outcome.returned[1] = {"s3_key", "text"}

\* C15: a prompts_create_version call with an empty version label ends with
\* the "version is required" error without having issued any S3 operation,
\* so without having changed a version object or the manifest.
C15_EmptyLabelRejectedFirst ==
    \A p \in Callers :
        (pc[p] # "idle" /\ args[p].version = "") =>
            /\ pc[p] = "done"
            /\ result[p] = "version is required"
            /\ effects[p] = NoEffects

C15_Witness ==
    \E p \in Callers :
        /\ pc[p] = "done" /\ args[p].version = ""
        /\ result[p] = "version is required"
        /\ \E l \in Labels : VersionExists(l) /\ Listed(StoredVersions(manifest), l)

\* C16: a call that ended with an AlreadyExists error (at the version-key
\* check or at the manifest duplicate check) has changed no stored object:
\* neither the content at the version key nor the manifest.
C16_AlreadyExistsChangedNothing ==
    \A p \in Callers :
        (pc[p] = "done" /\ result[p] \in AlreadyExists) => ~effects[p].changed

\* C17: starting from a store without versions, in every reachable state of
\* any interleaving of prompts_create_version calls, every label listed in
\* the manifest's version list has a version object at its key.
C17_ListedHasObject ==
    \A i \in 1..Len(StoredVersions(manifest)) :
        VersionExists(StoredVersions(manifest)[i].version)

C17_Witness ==
    /\ Len(StoredVersions(manifest)) = 2
    /\ \E p \in Callers : pc[p] = "done" /\ result[p] = "ok"

\* C18: with S3 operations that may fail, whenever no call is in progress
\* every existing version object is listed in the manifest, and no call has
\* been refused with "already exists" for a label the manifest does not list.
C18_FaultLeavesConsistent ==
    Quiet =>
        /\ \A l \in Labels :
              VersionExists(l) => Listed(StoredVersions(manifest), l)
        /\ \A p \in Callers :
              (pc[p] = "done" /\ result[p] = "Prompt version already exists") =>
                  Listed(StoredVersions(manifest), args[p].version)

\* The elements of a sequence, and whether none occurs twice.
Range(seq) == {seq[i] : i \in 1..Len(seq)}
NoDuplicates(seq) == \A i, j \in 1..Len(seq) : i # j => seq[i] # seq[j]

BucketKeys == {o[1] : o \in bucket}

\* The immediate children of a prefix: the slash-free segments seg for which
\* some key continues prefix, seg and a "/".
Children(prefix) ==
    {seg \in UNION {{SubSeq(k, Len(prefix) + 1, j) : j \in 0..Len(k)} : k \in BucketKeys} :
        /\ ~HasSlash(seg)
        /\ \E k \in BucketKeys : StartsWith(k, prefix \o seg \o <<Slash>>)}

\* The prefix whose children the client's current listing walks.
WalkedPrefix ==
    IF pager.call.op = "sessions_list" THEN sessions_root
    ELSE sessions_root \o pager.call.session_id \o AgentsDir

\* C12: a client that lists one level (sessions_list, sessions_list_agents)
\* from no cursor and follows the returned cursor collects every immediate
\* child exactly once: no duplicate at any point, nothing but children, all
\* children once is_truncated is false; every truncated page carries a
\* cursor, and the number of pages is bounded by the keys under the prefix.
C12_OneLevelPagesCompletely ==
    pager.call.op \in {"sessions_list", "sessions_list_agents"} =>
        /\ pager.truncated => pager.token # NoToken
        /\ NoDuplicates(pager.items)
        /\ Range(pager.items) \subseteq Children(WalkedPrefix)
        /\ pager.pages <= Cardinality({k \in BucketKeys : StartsWith(k, WalkedPrefix)}) + 1
        /\ ~pager.truncated => Range(pager.items) = Children(WalkedPrefix)

C12_Witness ==
    /\ pager.call.op = "sessions_list" /\ pager.call.limit = 2
    /\ pager.pages = 2 /\ ~pager.truncated
    /\ Range(pager.items) = {<<"a">>, <<"b">>, <<"c">>}

\* C13: no step of the ten read-only requests, successful or failed, creates,
\* replaces or removes an object: the metrics / sessions objects, the version
\* objects and the manifest stay as they are, and the request issues no S3
\* operation other than get_object, head_object and list_objects_v2.
C13_ReadOnly ==
    [][/\ bucket' = bucket
       /\ objects' = objects
       /\ manifest' = manifest
       /\ \A i \in 1..Len(s3log') :
             s3log'[i].op \in {"get_object", "head_object", "list_objects_v2"}]_vars

C13_Witness ==
    /\ bucket # {}
    /\ pager.pages >= 2
    /\ req.op = "sessions_get_raw" /\ outcome.raised # ""

\* The keys under the metrics prefix (with the date prefix, if given) whose
\* final segment starts with "<agent_id>_".
FilteredKeys ==
    LET prefix == IF pager.call.date_prefix # <<>>
                     THEN cfg.metrics_prefix \o pager.call.date_prefix \o <<Slash>>
                     ELSE cfg.metrics_prefix
    IN  {k \in BucketKeys :
            /\ StartsWith(k, prefix)
            /\ \E i \in 0..Len(k) :
                  /\ i = 0 \/ k[i] = Slash
                  /\ ~HasSlash(SubSeq(k, i + 1, Len(k)))
                  /\ StartsWith(SubSeq(k, i + 1, Len(k)),
                                pager.call.agent_id \o <<"_">>)}

\* C19: a client that walks metrics_list with an agent_id from no cursor
\* along the returned cursors collects exactly the keys under the prefix
\* whose final segment starts with "<agent_id>_", each once, by the time
\* is_truncated is false; a truncated page carries a cursor.
C19_FilteredListingComplete ==
    (pager.call.op = "metrics_list" /\ pager.call.agent_id # <<>>) =>
        /\ pager.truncated => pager.token # NoToken
        /\ NoDuplicates(pager.items)
        /\ Range(pager.items) \subseteq FilteredKeys
        /\ ~pager.truncated => Range(pager.items) = FilteredKeys

\* A finished walk one page of which was empty and truncated.
C19_Witness ==
    /\ pager.call.op = "metrics_list" /\ pager.call.agent_id = <<"b">>
    /\ ~pager.truncated /\ pager.emptyPage
    /\ pager.items # <<>>

=============================================================================
